---- MODULE Spec2Model ----
(***************************************************************************)
(* State-machine model of SFTPServerBackup.py: the module-level set-up     *)
(* (cache directory, arguments, config.json), main() (connection,          *)
(* retrieval loop, archive command, move_archive, cleanup, report) and     *)
(* the helpers cleanup() and move_archive().                               *)
(*                                                                         *)
(* The destination directory is modelled by the name slots of the archive *)
(* being placed: slot 0 is <filename>.7z, slot n > 0 is <filename>(n).7z.  *)
(***************************************************************************)
EXTENDS Integers, Sequences, FiniteSets, TLC

\* ---------------------------------------------------------------- bounds
MaxTargets == 2
MaxSlot == 9
MaxRetriesArg == 2
MaxExtWrites == 1

\* the literal 10 of `retry_limit = args.retries if args.retries else 10`
DefaultRetryLimit == 10

\* remote paths are sequences of components: world, srv/plugins
Targets == {<<"world">>, <<"srv", "plugins">>}
NoInfo == <<>>
NoPath == -1

VARIABLES
    pc,             \* position of the script
    args,           \* argparse result: retries, dir
    retry_limit,    \* global retry_limit (a str when --retries was given)
    retry_counter,  \* global retry_counter
    data,           \* config['data']
    cache,          \* the cache directory: exists, fetched items, archive file
    backup_dir,     \* destination directory: slot -> "none" | "old" | "new"
    backup_dir0,    \* destination directory as it was when the run started
    moveRaises,     \* whether the platform's move raises FileExistsError
    idx,            \* position of the retrieval loop in data
    fetched,        \* targets whose sftp.get completed, in order
    stack,          \* active move_archive frames: each frame's filepath (slot)
    tried,          \* slots shutil.move was called with, in order
    archive_path,   \* value returned by the outermost move_archive
    printed,        \* path printed in the 'Backup saved' message
    result,         \* "running" | "failed" | "crashed" | "finished"
    exitCode,       \* process exit code, -1 while running
    error,          \* last error logged or raised: name and the target it names
    trace,          \* stages the controller entered, in order
    cleanups,       \* number of times cleanup() has been called
    command,        \* input paths of the archive command, once it was built
    clobbered       \* files a move has replaced: <<slot, content it had>>

vars == <<pc, args, retry_limit, retry_counter, data, cache, backup_dir,
          backup_dir0, moveRaises, idx, fetched, stack, tried, archive_path,
          printed, result, exitCode, error, trace, cleanups, command,
          clobbered>>

\* ------------------------------------------------------------ input sets
RetriesArgs ==
    {[kind |-> "none", val |-> 0], [kind |-> "nonint", val |-> 0]}
    \cup {[kind |-> "int", val |-> n] : n \in 1..MaxRetriesArg}

DataLists == UNION {[1..n -> Targets] : n \in 0..MaxTargets}

Slots == 0..MaxSlot

\* ------------------------------------------------------- pure operators
Occupied(d, s) == s \in DOMAIN d /\ d[s] # "none"

\* mutant of WriteArchive: the move puts the archive outside backup_dir
WriteArchive_Elsewhere(d, s) == d

\* the file at slot s of directory d becomes the archive
WriteArchive(d, s) ==
    [x \in DOMAIN d \cup {s} |-> IF x = s THEN "new" ELSE d[x]]

\* sftp.get([info], localpath='cache'): the target lands in the cache
\* directory under its last component
Basename(p) == <<p[Len(p)]>>

\* shutil.rmtree(cache_dir)
rmtree == [exists |-> FALSE, items |-> {}, archive |-> FALSE]

\* retry_limit = args.retries if args.retries else 10 : the string as given
RetryLimitOf(r) ==
    IF r.kind = "none"
    THEN [type |-> "int", val |-> DefaultRetryLimit]
    ELSE [type |-> "str", val |-> r.val]

\* retry_counter >= retry_limit : int >= str raises TypeError
LimitCheck(counter, limit) ==
    IF limit.type = "int"
    THEN IF counter >= limit.val THEN "reached" ELSE "below"
    ELSE "TypeError"

\* mutant of SuffixSlot: the suffix does not follow retry_counter
SuffixSlot_Stuck(counter) == 1

\* final_filename of a retry frame: f'{filename}({retry_counter})'
SuffixSlot(counter) == counter

\* mutants of PcAfterCleanup: cleanup() that never exits, and cleanup() that
\* exits whatever its flag (as when line 213 called cleanup() without it)
PcAfterCleanup_NoExit(success, fallthrough) == fallthrough

PcAfterCleanup_AlwaysExit(success, fallthrough) == "terminated"

\* mutant of PcAfterCleanup: a failure handler goes on to the final
\* cleanup(success=True) of main() instead of leaving the process
PcAfterCleanup_ToEpilogue(success, fallthrough) ==
    IF success THEN fallthrough ELSE "cleanup"

\* cleanup(): `if not success: sys.exit(1)`; otherwise the caller goes on
PcAfterCleanup(success, fallthrough) ==
    IF success THEN fallthrough ELSE "terminated"

\* mutant of ErrInfo: no handler names the target
ErrInfo_NoName(exc, info) == NoInfo

\* the target an except handler of the retrieval loop names in its message:
\* lines 179 and 182 print info, line 185 prints the exception instead
ErrInfo(exc, info) ==
    IF exc \in {"SFTPNoSuchFile", "SFTPNoSuchPath"} THEN info ELSE NoInfo

\* what shutil.move does to an occupied destination path: it replaces the
\* file (os.rename on POSIX, the copy fallback elsewhere), moveRaises = FALSE;
\* the handler at line 161 is written for a move that raises FileExistsError
\* instead, moveRaises = TRUE. Both are kept, fixed for the whole run.
MoveOntoExisting == IF moveRaises THEN "FileExistsError" ELSE "replace"

\* mutant of SysExitCode: an exit that reports success to the caller
SysExitCode_Zero(code) == 0

\* sys.exit(code): the exit status the process ends with
SysExitCode(code) == code

\* --------------------------------------------------------------- initial
Init ==
    /\ pc = "makedirs"
    /\ args = [retries |-> [kind |-> "none", val |-> 0], dir |-> FALSE]
    /\ retry_limit = [type |-> "unset", val |-> 0]
    /\ retry_counter = 0
    /\ data = <<>>
    /\ cache = [exists |-> FALSE, items |-> {}, archive |-> FALSE]
    /\ backup_dir \in [Slots -> {"none", "old"}]
    /\ backup_dir0 = backup_dir
    /\ moveRaises \in BOOLEAN
    /\ idx = 1
    /\ fetched = <<>>
    /\ stack = <<>>
    /\ tried = <<>>
    /\ archive_path = NoPath
    /\ printed = NoPath
    /\ result = "running"
    /\ exitCode = -1
    /\ error = [name |-> "none", info |-> NoInfo]
    /\ trace = <<>>
    /\ cleanups = 0
    /\ command = <<>>
    /\ clobbered = {}

\* ------------------------------------------------- termination helpers
\* logger.error(...); sys.exit(1) at module level
ExitEarly(name) ==
    /\ pc' = "terminated"
    /\ result' = "failed"
    /\ exitCode' = SysExitCode(1)
    /\ error' = [name |-> name, info |-> NoInfo]

\* an exception no handler catches leaves main(): traceback, exit code 1
CrashFrom(name, tr) ==
    /\ pc' = "terminated"
    /\ result' = "crashed"
    /\ exitCode' = 1
    /\ error' = [name |-> name, info |-> NoInfo]
    /\ trace' = Append(tr, "Failed")

Crash(name) == CrashFrom(name, trace)

\* logger.error(...) then cleanup() in a handler
cleanup(success, fallthrough, name, info) ==
    IF ~cache.exists
    THEN /\ Crash("FileNotFoundError")
         /\ cleanups' = cleanups + 1
         /\ UNCHANGED cache
    ELSE /\ cache' = rmtree
         /\ cleanups' = cleanups + 1
         /\ pc' = PcAfterCleanup(success, fallthrough)
         /\ IF pc' = "terminated"
            THEN /\ result' = "failed"
                 /\ exitCode' = SysExitCode(1)
                 /\ trace' = Append(trace, "Failed")
            ELSE UNCHANGED <<result, exitCode, trace>>
         /\ error' = IF success THEN error ELSE [name |-> name, info |-> info]

\* ------------------------------------------------------- module level
MakeCacheDir ==
    /\ pc = "makedirs"
    /\ cache' = [cache EXCEPT !.exists = TRUE]
    /\ pc' = "parse_args"
    /\ UNCHANGED <<args, retry_limit, retry_counter, data, backup_dir,
                   backup_dir0, command, clobbered, moveRaises, idx, fetched, stack, tried,
                   archive_path, printed, result, exitCode, error, trace,
                   cleanups>>

ParseArgs ==
    /\ pc = "parse_args"
    /\ \E r \in RetriesArgs, d \in BOOLEAN :
        /\ args' = [retries |-> r, dir |-> d]
        /\ IF r.kind = "nonint"
           THEN /\ ExitEarly("ValueError")
                /\ UNCHANGED <<retry_limit, retry_counter>>
           ELSE /\ retry_limit' = RetryLimitOf(r)
                /\ retry_counter' = 0
                /\ pc' = "load_config"
                /\ UNCHANGED <<result, exitCode, error>>
    /\ UNCHANGED <<data, cache, backup_dir, backup_dir0, command, clobbered, moveRaises, idx,
                   fetched, stack, tried, archive_path, printed, trace,
                   cleanups>>

LoadConfig ==
    /\ pc = "load_config"
    /\ \/ /\ ExitEarly("FileNotFoundError")
          /\ UNCHANGED data
       \/ /\ ExitEarly("KeyError")
          /\ UNCHANGED data
       \/ \E dl \in DataLists :
            /\ data' = dl
            /\ pc' = "entry"
            /\ UNCHANGED <<result, exitCode, error>>
    /\ UNCHANGED <<args, retry_limit, retry_counter, cache, backup_dir,
                   backup_dir0, command, clobbered, moveRaises, idx, fetched, stack, tried,
                   archive_path, printed, trace, cleanups>>

\* `if __name__ == '__main__'`: check --dir, then asyncio.run(main(args.dir));
\* the controller is in its Retrieving stage from the first line of main()
Entry ==
    /\ pc = "entry"
    /\ IF ~args.dir
       THEN /\ ExitEarly("NoOutputDir")
            /\ UNCHANGED trace
       ELSE /\ pc' = "connect"
            /\ trace' = Append(trace, "Retrieving")
            /\ UNCHANGED <<result, exitCode, error>>
    /\ UNCHANGED <<args, retry_limit, retry_counter, data, cache, backup_dir,
                   backup_dir0, command, clobbered, moveRaises, idx, fetched, stack, tried,
                   archive_path, printed, cleanups>>

\* ---------------------------------------------------------------- main
ConnectOutcomes == {"ok", "gaierror", "PermissionDenied", "OSError"}

Connect ==
    /\ pc = "connect"
    /\ \E r \in ConnectOutcomes :
        CASE r = "ok" ->
               /\ pc' = "fetch"
               /\ UNCHANGED <<cache, cleanups, result, exitCode, error,
                              trace>>
          [] r \in {"gaierror", "PermissionDenied"} ->
               cleanup(FALSE, "archive", r, NoInfo)
          [] OTHER ->
               /\ Crash(r)
               /\ UNCHANGED <<cache, cleanups>>
    /\ UNCHANGED <<args, retry_limit, retry_counter, data, backup_dir,
                   backup_dir0, command, clobbered, moveRaises, idx, fetched, stack, tried,
                   archive_path, printed>>

FetchOutcomes == {"ok", "SFTPNoSuchFile", "SFTPNoSuchPath", "Exception"}

Fetch ==
    /\ pc = "fetch"
    /\ idx <= Len(data)
    /\ \E r \in FetchOutcomes :
        IF r = "ok"
        THEN /\ cache' = [cache EXCEPT !.items = @ \cup {Basename(data[idx])}]
             /\ fetched' = Append(fetched, data[idx])
             /\ idx' = idx + 1
             /\ UNCHANGED <<pc, cleanups, result, exitCode, error, trace>>
        ELSE /\ cleanup(FALSE, "archive", r, ErrInfo(r, data[idx]))
             /\ UNCHANGED <<fetched, idx>>
    /\ UNCHANGED <<args, retry_limit, retry_counter, data, backup_dir,
                   backup_dir0, command, clobbered, moveRaises, stack, tried, archive_path,
                   printed>>

FetchDone ==
    /\ pc = "fetch"
    /\ idx > Len(data)
    /\ pc' = "archive"
    /\ UNCHANGED <<args, retry_limit, retry_counter, data, cache, backup_dir,
                   backup_dir0, command, clobbered, moveRaises, idx, fetched, stack, tried,
                   archive_path, printed, result, exitCode, error, trace,
                   cleanups>>

\* lines 194-208: build the command [executable, 'a', '-t7z', name, *data],
\* chmod, run the archive tool with cwd = cache_dir
ArchiveOutcomes == {"ok", "CalledProcessError"}

Archive ==
    /\ pc = "archive"
    /\ IF ~cache.exists
       THEN /\ CrashFrom("FileNotFoundError", Append(trace, "Archiving"))
            /\ UNCHANGED cache
       ELSE \E r \in ArchiveOutcomes :
              IF r = "ok"
              THEN /\ cache' = [cache EXCEPT !.archive = TRUE]
                   /\ trace' = Append(trace, "Archiving")
                   /\ pc' = "move_call"
                   /\ UNCHANGED <<result, exitCode, error>>
              ELSE /\ CrashFrom(r, Append(trace, "Archiving"))
                   /\ UNCHANGED cache
    /\ command' = data
    /\ UNCHANGED <<args, retry_limit, retry_counter, data, backup_dir,
                   backup_dir0, clobbered, moveRaises, idx, fetched, stack,
                   tried, archive_path, printed, cleanups>>

\* ------------------------------------------------------- move_archive
\* archive_path = move_archive(backup_dir, filename): frame with retry=False
MoveCall ==
    /\ pc = "move_call"
    /\ trace' = Append(trace, "Placing")
    /\ stack' = <<0>>
    /\ pc' = "move_try"
    /\ UNCHANGED <<args, retry_limit, retry_counter, data, cache, backup_dir,
                   backup_dir0, command, clobbered, moveRaises, idx, fetched, tried, archive_path,
                   printed, result, exitCode, error, cleanups>>

\* shutil.move(os.path.join(cache_dir, f'{filename}.7z'), filepath)
MoveResult(d, s) ==
    IF ~cache.archive THEN "FileNotFoundError"
    ELSE IF Occupied(d, s) THEN MoveOntoExisting
    ELSE "moved"

MoveTry ==
    /\ pc = "move_try"
    /\ LET s == stack[Len(stack)]
           r == MoveResult(backup_dir, s)
       IN /\ tried' = Append(tried, s)
          /\ CASE r = "FileNotFoundError" ->
                   /\ Crash(r)
                   /\ UNCHANGED <<backup_dir, cache, clobbered>>
              [] r = "FileExistsError" ->
                   /\ pc' = "move_retry"
                   /\ UNCHANGED <<backup_dir, cache, clobbered, result,
                                  exitCode, error, trace>>
              [] OTHER ->
                   /\ backup_dir' = WriteArchive(backup_dir, s)
                   /\ clobbered' = IF Occupied(backup_dir, s)
                                   THEN clobbered \cup {<<s, backup_dir[s]>>}
                                   ELSE clobbered
                   /\ cache' = [cache EXCEPT !.archive = FALSE]
                   /\ pc' = "move_return"
                   /\ UNCHANGED <<result, exitCode, error, trace>>
    /\ UNCHANGED <<args, retry_limit, retry_counter, data, backup_dir0, command,
                   moveRaises, idx, fetched, stack, archive_path, printed,
                   cleanups>>

\* except FileExistsError: move_archive(backup_dir, filename, retry=True)
MoveRetry ==
    /\ pc = "move_retry"
    /\ retry_counter' = retry_counter + 1
    /\ LET c == LimitCheck(retry_counter', retry_limit)
       IN CASE c = "TypeError" ->
                 /\ Crash("TypeError")
                 /\ UNCHANGED <<cache, cleanups, stack>>
            [] c = "reached" ->
                 /\ cleanup(FALSE, "move_try", "RetryLimitReached", NoInfo)
                 /\ stack' = IF pc' = "move_try"
                             THEN Append(stack, SuffixSlot(retry_counter'))
                             ELSE stack
            [] OTHER ->
                 /\ stack' = Append(stack, SuffixSlot(retry_counter'))
                 /\ pc' = "move_try"
                 /\ UNCHANGED <<cache, cleanups, result, exitCode, error,
                                trace>>
    /\ UNCHANGED <<args, retry_limit, data, backup_dir, backup_dir0, command, clobbered,
                   moveRaises, idx, fetched, tried, archive_path, printed>>

\* `return filepath` of the innermost active frame; the caller at line 162
\* drops the value, the caller at line 211 binds it to archive_path
MoveReturn ==
    /\ pc = "move_return"
    /\ stack' = SubSeq(stack, 1, Len(stack) - 1)
    /\ IF Len(stack) = 1
       THEN /\ archive_path' = stack[Len(stack)]
            /\ pc' = "cleanup"
       ELSE UNCHANGED <<archive_path, pc>>
    /\ UNCHANGED <<args, retry_limit, retry_counter, data, cache, backup_dir,
                   backup_dir0, command, clobbered, moveRaises, idx, fetched, tried, printed,
                   result, exitCode, error, trace, cleanups>>

\* cleanup(success=True)
CleanupSuccess ==
    /\ pc = "cleanup"
    /\ cleanup(TRUE, "report", "none", NoInfo)
    /\ UNCHANGED <<args, retry_limit, retry_counter, data, backup_dir,
                   backup_dir0, command, clobbered, moveRaises, idx, fetched, stack, tried,
                   archive_path, printed>>

\* print(f'Backup saved: "{archive_path}"')
Report ==
    /\ pc = "report"
    /\ printed' = archive_path
    /\ trace' = Append(trace, "Succeeded")
    /\ pc' = "exit"
    /\ UNCHANGED <<args, retry_limit, retry_counter, data, cache, backup_dir,
                   backup_dir0, command, clobbered, moveRaises, idx, fetched, stack, tried,
                   archive_path, result, exitCode, error, cleanups>>

\* the final sys.exit(1) of main()
Exit ==
    /\ pc = "exit"
    /\ pc' = "terminated"
    /\ result' = "finished"
    /\ exitCode' = SysExitCode(1)
    /\ UNCHANGED <<args, retry_limit, retry_counter, data, cache, backup_dir,
                   backup_dir0, command, clobbered, moveRaises, idx, fetched, stack, tried,
                   archive_path, printed, error, trace, cleanups>>

Next ==
    \/ MakeCacheDir
    \/ ParseArgs
    \/ LoadConfig
    \/ Entry
    \/ Connect
    \/ Fetch
    \/ FetchDone
    \/ Archive
    \/ MoveCall
    \/ MoveTry
    \/ MoveRetry
    \/ MoveReturn
    \/ CleanupSuccess
    \/ Report
    \/ Exit

Spec == Init /\ [][Next]_vars

\* -------------------------------------------- destination shared with others
\* another process creates a file in the destination directory while
\* move_archive is running; the file is marked "race" when it lands on the
\* candidate path after filepath was computed (line 157) and before
\* shutil.move was called with it (line 160), "ext" otherwise
ExtFiles == {"ext", "race"}

ExtWritten ==
    Cardinality({s \in DOMAIN backup_dir : backup_dir[s] \in ExtFiles})
    + Cardinality({c \in clobbered : c[2] \in ExtFiles})

ExternalWrite ==
    /\ pc \in {"move_try", "move_retry"}
    /\ ExtWritten < MaxExtWrites
    /\ \E s \in Slots :
        /\ ~Occupied(backup_dir, s)
        /\ backup_dir' =
              [backup_dir EXCEPT ![s] =
                 IF pc = "move_try" /\ s = stack[Len(stack)]
                 THEN "race" ELSE "ext"]
    /\ UNCHANGED <<pc, args, retry_limit, retry_counter, data, cache,
                   backup_dir0, moveRaises, idx, fetched, stack, tried,
                   archive_path, printed, result, exitCode, error, trace,
                   cleanups, command, clobbered>>

NextExt ==
    \/ Next
    \/ ExternalWrite

SpecExt == Init /\ [][NextExt]_vars

\* ------------------------------------------------------------ vocabulary
Has(stage) == \E i \in DOMAIN trace : trace[i] = stage

InMain == trace # <<>>

NewFiles == {s \in DOMAIN backup_dir : backup_dir[s] = "new"}

PlacementOver ==
    Has("Placing") /\ pc \notin {"move_try", "move_retry", "move_return"}

RunFailed == result \in {"failed", "crashed"}

NotFoundErrors == {"SFTPNoSuchFile", "SFTPNoSuchPath"}

RetrievalErrors == NotFoundErrors \cup {"Exception"}

ConnectionErrors == {"gaierror", "PermissionDenied", "OSError"}

\* exactly the slots 0 .. k-1 were occupied when the run started
FirstK(k) == \A s \in Slots : (backup_dir0[s] = "old") <=> (s < k)

\* the slots 0 .. L-1 were all occupied when the run started
AllTaken(L) == \A s \in 0..(L - 1) : Occupied(backup_dir0, s)

FreeBelow(L) == {s \in 0..(L - 1) : ~Occupied(backup_dir0, s)}

Min(S) == CHOOSE x \in S : \A y \in S : x <= y

IsPrefix(p, q) == Len(p) <= Len(q) /\ \A i \in 1..Len(p) : p[i] = q[i]

Stages == <<"Retrieving", "Archiving", "Placing", "Succeeded">>

\* ---------------------------------------------------------------- claims

\* C1: every run that entered main() has removed the cache directory by the
\* time the process has terminated, whatever the exit path.
C1_CacheRemovedOnEveryExit ==
    (pc = "terminated" /\ InMain) => ~cache.exists

\* C2: every file present in the destination directory when the run started
\* is still there, unchanged, in every later state.
C2_NoOverwrite ==
    \A s \in Slots : backup_dir0[s] = "old" => backup_dir[s] = "old"

\* C3: when exactly the slots 0 .. k-1 are occupied and k is below the retry
\* limit, placement succeeds and the archive is written to slot k only.
C3_PlacedAtSlotK ==
    \A k \in Slots :
        (FirstK(k) /\ k < retry_limit.val /\ PlacementOver)
            => (~RunFailed /\ NewFiles = {k})

\* C4: when the slots 0 .. retryLimit-1 are all occupied, no move is tried
\* with a suffix of retryLimit or more, nothing is written, and placement
\* ends as a failure at attempts = retryLimit with the cache removed and no
\* 'Backup saved' message.
C4_ExhaustionFails ==
    (retry_limit.type # "unset" /\ AllTaken(retry_limit.val))
        => /\ \A i \in DOMAIN tried : tried[i] < retry_limit.val
           /\ NewFiles = {}
           /\ printed = NoPath
           /\ PlacementOver => /\ result = "failed"
                               /\ retry_counter = retry_limit.val
                               /\ ~cache.exists

\* C5: the path printed in the 'Backup saved' message is the path where the
\* archive is in the destination directory.
C5_ReportedPathHoldsArchive ==
    printed # NoPath => (printed \in DOMAIN backup_dir
                         /\ backup_dir[printed] = "new")

C7_StageOrder ==
    /\ \/ IsPrefix(trace, Stages)
       \/ /\ Len(trace) >= 2
          /\ trace[Len(trace)] = "Failed"
          /\ IsPrefix(SubSeq(trace, 1, Len(trace) - 1),
                      SubSeq(Stages, 1, 3))
    /\ (InMain /\ error.name # "none")
          => (pc = "terminated" /\ trace[Len(trace)] = "Failed")
    /\ Has("Failed") => (pc = "terminated" /\ printed = NoPath)
    /\ Has("Archiving") => (fetched = data /\ idx = Len(data) + 1)
    /\ Has("Succeeded") => (NewFiles # {} /\ ~cache.archive)

C7_Witness ==
    /\ trace = <<"Retrieving", "Archiving", "Placing", "Failed">>
    /\ error.name = "RetryLimitReached"

\* C8: a run that ended in failure at any stage has left the destination
\* directory exactly as it was when the run started.
C8_FailedRunLeavesDestination ==
    RunFailed => backup_dir = backup_dir0

C8_Witness ==
    /\ result = "failed"
    /\ error.name = "RetryLimitReached"
    /\ Len(tried) = DefaultRetryLimit

\* C9: after any failure to establish the connection the run has terminated
\* with nothing fetched, the cache directory absent and the destination
\* directory untouched.
C9_ConnectionFailureCleansUp ==
    error.name \in ConnectionErrors
        => /\ pc = "terminated"
           /\ fetched = <<>>
           /\ ~cache.exists
           /\ backup_dir = backup_dir0

\* C10: with --retries N, where collisions are signalled, placement writes
\* the archive to the first free slot when one of the slots 0 .. N-1 is
\* free, and otherwise fails by exhaustion with the cache removed.
C10_RetriesArgIsTheLimit ==
    (args.retries.kind = "int" /\ moveRaises /\ PlacementOver)
        => LET N == args.retries.val
           IN IF FreeBelow(N) # {}
              THEN ~RunFailed /\ NewFiles = {Min(FreeBelow(N))}
              ELSE /\ result = "failed"
                   /\ error.name = "RetryLimitReached"
                   /\ ~cache.exists
                   /\ NewFiles = {}

ConfigErrors == {"ValueError", "FileNotFoundError", "KeyError", "NoOutputDir"}

\* C11: a run that ended on a configuration error (before main() was entered)
\* has no cache directory at termination.
C11_NoCacheOnConfigError ==
    (pc = "terminated" /\ ~InMain /\ error.name \in ConfigErrors)
        => ~cache.exists

\* C12: every terminated run, failed, crashed or finished after the 'Backup
\* saved' message, has exit code 1.
C12_ExitCodeAlwaysOne ==
    pc = "terminated" => exitCode = 1

C12_Witness ==
    /\ result = "finished"
    /\ printed # NoPath
    /\ exitCode = 1

\* C13: after a non-zero exit of the archive tool the run has terminated as
\* a failure with the cache directory removed and placement never attempted.
C13_ArchiveFailureCleansUp ==
    error.name = "CalledProcessError"
        => /\ pc = "terminated"
           /\ exitCode = 1
           /\ ~Has("Placing")
           /\ ~cache.exists

\* C14: cleanup() is called at most once in a run.
C14_CleanupAtMostOnce ==
    cleanups <= 1

C14_Witness ==
    /\ cleanups = 1
    /\ error.name = "RetryLimitReached"
    /\ Len(stack) = DefaultRetryLimit
    /\ pc = "terminated"

\* C15: the n-th move of a placement is tried on slot n-1 (unsuffixed first,
\* then suffixes 1, 2, ... without repeats), and a move after the first is
\* tried only when the candidate before it was occupied.
C15_SuffixSequence ==
    \A i \in DOMAIN tried :
        /\ tried[i] = i - 1
        /\ i > 1 => Occupied(backup_dir0, tried[i - 1])

C15_Witness ==
    /\ tried = <<0, 1, 2>>
    /\ backup_dir[2] = "new"

\* C16: on the success path cleanup starts only when the archive has left
\* the cache for the destination directory, and a finished run has the cache
\* removed and exactly one archive in the destination directory.
C16_MoveBeforeCleanup ==
    /\ pc = "cleanup"
          => (cache.exists /\ ~cache.archive /\ Cardinality(NewFiles) = 1)
    /\ (pc \in {"report", "exit"} \/ result = "finished")
          => (~cache.exists /\ cleanups = 1 /\ Cardinality(NewFiles) = 1)

C16_Witness ==
    /\ result = "finished"
    /\ NewFiles = {1}
    /\ ~cache.exists

\* C17: for every retry limit L, placement makes at most L moves, the
\* attempts counter never exceeds L, and placement ends in success or in
\* exhaustion.
C17_PlacementEndsWithinLimit ==
    retry_limit.type # "unset"
        => /\ Len(tried) <= retry_limit.val
           /\ retry_counter <= retry_limit.val
           /\ PlacementOver
                => \/ (~RunFailed /\ NewFiles # {})
                   \/ error.name = "RetryLimitReached"

\* C18: once the archive command has been built, its input paths are exactly
\* the top-level items retrieval created in the cache directory.
C18_ArchiveInputsAreCacheItems ==
    (Has("Archiving") /\ cache.exists)
        => {command[i] : i \in DOMAIN command} = cache.items

\* C19: with another process writing into the destination directory during
\* placement, a file is replaced by the move only if it was created on the
\* candidate path between the choice of that path and the move.
C19_OverwriteOnlyInRace ==
    \A c \in clobbered : c[2] = "race"

\* C19: the interleaving in which a file created in that window is replaced
C19_RaceWitness ==
    \E c \in clobbered : c[2] = "race" /\ backup_dir[c[1]] = "new"
====
